---- MODULE Spec2Model ----
(***************************************************************************)
(* Content lifecycle and moderation engine of the question/answer          *)
(* knowledge base: the Express route handlers of server/routes.ts running  *)
(* concurrently against the MySQL tables of DatabaseStorage.               *)
(*                                                                         *)
(* Every handler is an async function; it runs atomically up to each       *)
(* `await storage.*` and each storage call is one SQL statement (or, for   *)
(* deleteQuestion, two).  A handler is therefore modelled as a chain of    *)
(* steps, one per SQL statement that reads or writes the tables, and the   *)
(* steps of different requests interleave freely.  The first step of a     *)
(* handler (named ...Begin) takes the request, runs the middleware and the *)
(* checks up to and including the first statement.                         *)
(***************************************************************************)
EXTENDS Integers, Sequences, FiniteSets, Bags, TLC

\* ---------------------------------------------------------------- bounds
MaxQ == 2        \* question rows ever inserted
MaxA == 2        \* answer rows ever inserted
MaxViews == 2    \* view requests served per question
MaxLog == 4      \* activity-log rows ever inserted
MaxProcs == 2    \* requests in flight at the same time

\* --------------------------------------------------------- identity data
\* shared/schema.ts userRoleEnum; one account per role
Users == {"a1", "s1", "u1"}

Role(u) == CASE u = "a1" -> "admin" [] u = "s1" -> "supervisor" [] OTHER -> "user"

\* shared/schema.ts statusEnum
Statuses == {"pending", "approved", "rejected"}

\* what a PATCH .../status body may carry: the enum values and anything else
StatusInputs == Statuses \cup {"archived"}

\* the status key of a POST /api/questions body that passes the schema: absent
\* ("") or one of the enum
BodyStatuses == Statuses \cup {""}

QIds == 1..MaxQ
AIds == 1..MaxA
Procs == 1..MaxProcs

VARIABLES
    questions,   \* table questions: id -> [createdBy, status, views, isFinal]
    answers,     \* table answers:   id -> [questionId, createdBy, status]
    log,         \* table activity_log: the bag of its rows [userId, action] (the
                 \* uuid and the timestamp of a row are left out)
    nq,          \* question rows inserted so far (ids are uuids: never reused)
    na,          \* answer rows inserted so far
    pc,          \* per request slot: the next step of the handler running in it
    loc,         \* per request slot: the handler's locals (req.user, params, body)
    last,        \* the response most recently sent: [op, kind]; NoResp once a
                 \* later request has been accepted and is still running
    viewCalls    \* per question id: GET /api/questions/:id calls that found it

vars == <<questions, answers, log, nq, na, pc, loc, last, viewCalls>>

NoLoc == [actor |-> "", id |-> 0, status |-> "", isFinal |-> 0, views |-> 0]
NoResp == [op |-> "", kind |-> ""]

Loc(actor, id, status, isFinal) ==
    [actor |-> actor, id |-> id, status |-> status, isFinal |-> isFinal, views |-> 0]

\* res.status(...).json(...): the error kinds are the handlers' status codes and
\* messages: 201 Created, 200 OK, 400 "Invalid question data" / "Answer text is
\* required" / "Invalid answer data" ValidationError, 400 "You already have a
\* pending question" ThrottleViolation, 400 "Invalid status" InvalidStatus,
\* 400 "Only rejected questions can be deleted" InvalidState, 404 NotFound,
\* 403 Forbidden, 403 "This question already has a final answer" Locked.
Resp(op, kind) == [op |-> op, kind |-> kind]

InFlight(labels) == {p \in Procs : pc[p] \in labels}

\* the steps after which the handler still inserts an activity_log row
LogLabels == {"sq_insert", "sq_log", "qs_log", "dq_answers", "dq_question", "dq_log",
              "sa_insert", "sa_log", "as_log", "pa_insert", "pa_final", "pa_log",
              "cp_qlog", "cp_answer", "cp_ainsert", "cp_final", "cp_alog"}

\* the steps after which a handler still inserts an answer row
AnswerLabels == {"sa_insert", "pa_insert", "cp_answer", "cp_ainsert"}

\* ------------------------------------------------------------- storage
\* DatabaseStorage: each operator is one SQL statement on a table value.

\* getQuestions with the created_by filter forgotten
getQuestionsAnyAuthor(f) ==
    {id \in DOMAIN questions : f.status # "" => questions[id].status = f.status}

\* SELECT ... WHERE created_by = userId AND status = status (the filters the
\* throttle passes; "" is a filter left out)
getQuestions(f) ==
    {id \in DOMAIN questions :
        /\ f.status # "" => questions[id].status = f.status
        /\ f.userId # "" => questions[id].createdBy = f.userId}

\* SELECT ... WHERE id = id; the row, or undefined (here: no such id)
getQuestionById(id) == IF id \in DOMAIN questions THEN {questions[id]} ELSE {}

\* INSERT INTO questions; views takes the column default 0
createQuestion(qs, id, question) ==
    qs @@ (id :> [createdBy |-> question.createdBy, status |-> question.status,
                  views |-> 0, isFinal |-> question.isFinal])

\* updateQuestionStatus moving only a pending row
updateQuestionStatusFromPending(qs, id, status) ==
    [q \in DOMAIN qs |->
        IF q = id /\ qs[q].status = "pending" THEN [qs[q] EXCEPT !.status = status]
        ELSE qs[q]]

\* UPDATE questions SET status = status WHERE id = id
updateQuestionStatus(qs, id, status) ==
    [q \in DOMAIN qs |-> IF q = id THEN [qs[q] EXCEPT !.status = status] ELSE qs[q]]

\* UPDATE questions SET views = views + 1 WHERE id = id
incrementQuestionViews(qs, id) ==
    [q \in DOMAIN qs |-> IF q = id THEN [qs[q] EXCEPT !.views = @ + 1] ELSE qs[q]]

\* updateQuestionFinalStatus flipping the flag instead of setting it
updateQuestionFinalStatusFlip(qs, id, isFinal) ==
    [q \in DOMAIN qs |-> IF q = id THEN [qs[q] EXCEPT !.isFinal = 1 - @] ELSE qs[q]]

\* UPDATE questions SET is_final = isFinal WHERE id = id
updateQuestionFinalStatus(qs, id, isFinal) ==
    [q \in DOMAIN qs |-> IF q = id THEN [qs[q] EXCEPT !.isFinal = isFinal] ELSE qs[q]]

\* deleteQuestion, first statement: DELETE FROM answers WHERE question_id = id
deleteAnswersOfQuestion(as, id) ==
    [a \in {x \in DOMAIN as : as[x].questionId # id} |-> as[a]]

\* deleteQuestion, second statement: DELETE FROM questions WHERE id = id
deleteQuestionRow(qs, id) == [q \in DOMAIN qs \ {id} |-> qs[q]]

\* createAnswer leaving the status to the column default
createAnswerPending(as, id, answer) ==
    as @@ (id :> [questionId |-> answer.questionId, createdBy |-> answer.createdBy,
                  status |-> "pending"])

\* INSERT INTO answers
createAnswer(as, id, answer) ==
    as @@ (id :> [questionId |-> answer.questionId, createdBy |-> answer.createdBy,
                  status |-> answer.status])

\* the update matching every answer of the addressed answer's question
updateAnswerStatusByQuestion(as, id, status) ==
    [a \in DOMAIN as |->
        IF id \in DOMAIN as /\ as[a].questionId = as[id].questionId
        THEN [as[a] EXCEPT !.status = status]
        ELSE as[a]]

\* UPDATE answers SET status = status WHERE id = id
updateAnswerStatus(as, id, status) ==
    [a \in DOMAIN as |-> IF a = id THEN [as[a] EXCEPT !.status = status] ELSE as[a]]

\* an insert that replaces what the table holds
logActivityOverwrite(l, userId, action) ==
    SetToBag({[userId |-> userId, action |-> action]})

\* INSERT INTO activity_log
logActivity(l, userId, action) ==
    l (+) SetToBag({[userId |-> userId, action |-> action]})

\* ----------------------------------------------------------------- Init
Init ==
    /\ questions = <<>>
    /\ answers = <<>>
    /\ log = EmptyBag
    /\ nq = 0
    /\ na = 0
    /\ pc = [p \in Procs |-> "idle"]
    /\ loc = [p \in Procs |-> NoLoc]
    /\ last = NoResp
    /\ viewCalls = [q \in QIds |-> 0]

\* ------------------------------------------------------- handler plumbing
\* A request is taken by the lowest free slot (slots are anonymous).
FreeSlot(p) == pc[p] = "idle" /\ \A q \in Procs : q < p => pc[q] # "idle"

\* room for n more activity_log rows besides those the running handlers add (the
\* combined post adds two: one per request)
LogRoomFor(n) ==
    BagCardinality(log) + Cardinality(InFlight(LogLabels))
        + Cardinality(InFlight({"cp_qlog"})) + n <= MaxLog

LogRoom == LogRoomFor(1)

\* the handler answers in its first step and touches no table
Reject(op, kind) ==
    /\ last' = Resp(op, kind)
    /\ UNCHANGED <<questions, answers, log, nq, na, pc, loc, viewCalls>>

\* the handler moves on to step `label` with locals `l`
Goto(p, label, l) ==
    /\ pc' = [pc EXCEPT ![p] = label]
    /\ loc' = [loc EXCEPT ![p] = l]

\* the handler's last step: the response goes out and the slot is free again
Finish(p, op, kind) ==
    /\ last' = Resp(op, kind)
    /\ pc' = [pc EXCEPT ![p] = "idle"]
    /\ loc' = [loc EXCEPT ![p] = NoLoc]

\* ------------------------------------------------- POST /api/questions
\* the row the handler hands to createQuestion: status from the role, isFinal
\* from req.body.isFinal || (admin ? 1 : 0)
NewQuestion(actor, bodyIsFinal) ==
    [createdBy |-> actor,
     status |-> IF Role(actor) = "admin" THEN "approved" ELSE "pending",
     isFinal |-> IF bodyIsFinal # 0 THEN bodyIsFinal
                 ELSE IF Role(actor) = "admin" THEN 1 ELSE 0]

\* insertQuestionSchema.parse(req.body): of the keys modelled here the schema
\* keeps status (optional, one of the enum) and strips views, createdBy, isFinal
ValidatedData(bodyStatus) == IF bodyStatus = "" THEN <<>> ELSE [status |-> bodyStatus]

\* the object literal with the spread written after the handler's own keys
QuestionValuesSpreadLast(actor, validatedData, bodyIsFinal) ==
    validatedData @@ NewQuestion(actor, bodyIsFinal)

\* { ...validatedData, createdBy, status, isFinal }: the keys written after the
\* spread replace those of the body
QuestionValues(actor, validatedData, bodyIsFinal) ==
    NewQuestion(actor, bodyIsFinal) @@ validatedData

\* the throttle query asking for the wrong status
ExistingApprovedQuestions(actor) ==
    getQuestions([userId |-> actor, status |-> "approved"])

\* the one-at-a-time rule: the supervisor's own pending questions, limit 1
ExistingPendingQuestions(actor) ==
    getQuestions([userId |-> actor, status |-> "pending"])

\* the throttle applied to every role
SubmitQuestionChecksEveryRole(actor, valid) ==
    IF ~valid THEN "ValidationError"
    ELSE IF Cardinality(ExistingPendingQuestions(actor)) > 0 THEN "ThrottleViolation"
    ELSE ""

\* insertQuestionSchema.parse and, for a supervisor, the throttle: the error the
\* handler answers with, or "" when it goes on to create the question
SubmitQuestionChecks(actor, valid) ==
    IF ~valid THEN "ValidationError"
    ELSE IF Role(actor) = "supervisor" /\ Cardinality(ExistingPendingQuestions(actor)) > 0
    THEN "ThrottleViolation"
    ELSE ""

\* the checks; for a supervisor the throttle query is the handler's first await,
\* for the other roles the handler runs on to the INSERT
SubmitQuestionRequest(p, actor, valid, bodyStatus, bodyIsFinal) ==
    /\ FreeSlot(p)
    /\ IF SubmitQuestionChecks(actor, valid) # ""
       THEN Reject("submitQuestion", SubmitQuestionChecks(actor, valid))
       ELSE /\ nq + Cardinality(InFlight({"sq_insert"})) < MaxQ
            /\ LogRoom
            /\ last' = NoResp
            /\ IF Role(actor) = "supervisor"
               THEN /\ Goto(p, "sq_insert", Loc(actor, 0, bodyStatus, bodyIsFinal))
                    /\ UNCHANGED <<questions, answers, log, nq, na, viewCalls>>
               ELSE /\ questions' =
                           createQuestion(questions, nq + 1,
                                          QuestionValues(actor, ValidatedData(bodyStatus),
                                                         bodyIsFinal))
                    /\ nq' = nq + 1
                    /\ Goto(p, "sq_log", Loc(actor, 0, bodyStatus, 0))
                    /\ UNCHANGED <<answers, log, na, viewCalls>>

\* a request whose body carries no status key
SubmitQuestionBegin(p, actor, valid, bodyIsFinal) ==
    SubmitQuestionRequest(p, actor, valid, "", bodyIsFinal)

\* storage.createQuestion, reached by a supervisor after the throttle query
SubmitQuestionInsert(p) ==
    /\ pc[p] = "sq_insert"
    /\ questions' = createQuestion(questions, nq + 1,
                                   QuestionValues(loc[p].actor, ValidatedData(loc[p].status),
                                                  loc[p].isFinal))
    /\ nq' = nq + 1
    /\ Goto(p, "sq_log", Loc(loc[p].actor, 0, loc[p].status, 0))
    /\ UNCHANGED <<answers, log, na, last, viewCalls>>

\* storage.logActivity, the notification mail (its failure is caught), 201
SubmitQuestionLog(p) ==
    /\ pc[p] = "sq_log"
    /\ log' = logActivity(log, loc[p].actor, "Created question")
    /\ Finish(p, "submitQuestion", "Created")
    /\ UNCHANGED <<questions, answers, nq, na, viewCalls>>

\* --------------------------------------------- GET /api/questions/:id
\* storage.getQuestionById, 404 when there is no such row; the handler keeps the
\* row it read (it is the response body)
ViewQuestionBegin(p, actor, id) ==
    /\ FreeSlot(p)
    /\ IF getQuestionById(id) = {}
       THEN Reject("viewQuestion", "NotFound")
       ELSE /\ viewCalls[id] < MaxViews
            /\ viewCalls' = [viewCalls EXCEPT ![id] = @ + 1]
            /\ Goto(p, "gv_incr", [Loc("", id, "", 0) EXCEPT !.views = questions[id].views])
            /\ last' = NoResp
            /\ UNCHANGED <<questions, answers, log, nq, na>>

\* the view count written back from the row the handler read
ViewQuestionWriteBack(p) ==
    /\ pc[p] = "gv_incr"
    /\ questions' = [q \in DOMAIN questions |->
                        IF q = loc[p].id
                        THEN [questions[q] EXCEPT !.views = loc[p].views + 1]
                        ELSE questions[q]]
    /\ Finish(p, "viewQuestion", "OK")
    /\ UNCHANGED <<answers, log, nq, na, viewCalls>>

\* storage.incrementQuestionViews, 200
ViewQuestionIncrement(p) ==
    /\ pc[p] = "gv_incr"
    /\ questions' = incrementQuestionViews(questions, loc[p].id)
    /\ Finish(p, "viewQuestion", "OK")
    /\ UNCHANGED <<answers, log, nq, na, viewCalls>>

\* ------------------------------------ PATCH /api/questions/:id/status
\* the status check without the role gate
SetQuestionStatusChecksAnyRole(actor, status) ==
    IF status \notin {"pending", "approved", "rejected"} THEN "InvalidStatus" ELSE ""

\* the role gate without the status check
SetQuestionStatusChecksAnyStatus(actor, status) ==
    IF Role(actor) \notin {"admin", "supervisor"} THEN "Forbidden" ELSE ""

\* requireRole(["admin", "supervisor"]) and the status check
SetQuestionStatusChecks(actor, status) ==
    IF Role(actor) \notin {"admin", "supervisor"} THEN "Forbidden"
    ELSE IF status \notin {"pending", "approved", "rejected"} THEN "InvalidStatus"
    ELSE ""

\* the checks, storage.updateQuestionStatus
SetQuestionStatusBegin(p, actor, id, status) ==
    /\ FreeSlot(p)
    /\ IF SetQuestionStatusChecks(actor, status) # ""
       THEN Reject("setQuestionStatus", SetQuestionStatusChecks(actor, status))
       ELSE /\ LogRoom
            /\ questions' = updateQuestionStatus(questions, id, status)
            /\ Goto(p, "qs_log", Loc(actor, 0, "", 0))
            /\ last' = NoResp
            /\ UNCHANGED <<answers, log, nq, na, viewCalls>>

\* storage.logActivity, 200
SetQuestionStatusLog(p) ==
    /\ pc[p] = "qs_log"
    /\ log' = logActivity(log, loc[p].actor, "Updated question status")
    /\ Finish(p, "setQuestionStatus", "OK")
    /\ UNCHANGED <<questions, answers, nq, na, viewCalls>>

\* ------------------------------------------ DELETE /api/questions/:id
\* the delete checks without the status check
DeleteQuestionChecksAnyStatus(actor, id) ==
    IF Role(actor) \notin {"admin"} THEN "Forbidden"
    ELSE IF getQuestionById(id) = {} THEN "NotFound"
    ELSE ""

\* requireRole(["admin"]), storage.getQuestionById, the status check
DeleteQuestionChecks(actor, id) ==
    IF Role(actor) \notin {"admin"} THEN "Forbidden"
    ELSE IF getQuestionById(id) = {} THEN "NotFound"
    ELSE IF \E question \in getQuestionById(id) : question.status # "rejected"
    THEN "InvalidState"
    ELSE ""

DeleteQuestionBegin(p, actor, id) ==
    /\ FreeSlot(p)
    /\ IF DeleteQuestionChecks(actor, id) # ""
       THEN Reject("deleteQuestion", DeleteQuestionChecks(actor, id))
       ELSE /\ LogRoom
            /\ Goto(p, "dq_answers", Loc(actor, id, "", 0))
            /\ last' = NoResp
            /\ UNCHANGED <<questions, answers, log, nq, na, viewCalls>>

\* storage.deleteQuestion, first statement
DeleteQuestionAnswers(p) ==
    /\ pc[p] = "dq_answers"
    /\ answers' = deleteAnswersOfQuestion(answers, loc[p].id)
    /\ Goto(p, "dq_question", loc[p])
    /\ UNCHANGED <<questions, log, nq, na, last, viewCalls>>

\* storage.deleteQuestion, second statement
DeleteQuestionRow(p) ==
    /\ pc[p] = "dq_question"
    /\ questions' = deleteQuestionRow(questions, loc[p].id)
    /\ Goto(p, "dq_log", Loc(loc[p].actor, 0, "", 0))
    /\ UNCHANGED <<answers, log, nq, na, last, viewCalls>>

\* storage.logActivity, 200
DeleteQuestionLog(p) ==
    /\ pc[p] = "dq_log"
    /\ log' = logActivity(log, loc[p].actor, "Deleted rejected question")
    /\ Finish(p, "deleteQuestion", "OK")
    /\ UNCHANGED <<questions, answers, nq, na, viewCalls>>

\* ------------------------------------ POST /api/questions/:id/answers
\* the answer checks without the isFinal check
SubmitAnswerChecksNotLocked(actor, id, textOk) ==
    IF ~textOk THEN "ValidationError"
    ELSE IF getQuestionById(id) = {} THEN "NotFound"
    ELSE IF Role(actor) = "user" THEN "Forbidden"
    ELSE ""

\* the answerText check, storage.getQuestionById, the role and isFinal checks
SubmitAnswerChecks(actor, id, textOk) ==
    IF ~textOk THEN "ValidationError"
    ELSE IF getQuestionById(id) = {} THEN "NotFound"
    ELSE IF Role(actor) = "user" THEN "Forbidden"
    ELSE IF \E question \in getQuestionById(id) : question.isFinal # 0 THEN "Locked"
    ELSE ""

\* every answer approved on creation
AnswerStatusApproved(actor) == "approved"

\* the status of the new answer, from the role
AnswerStatus(actor) == IF Role(actor) = "admin" THEN "approved" ELSE "pending"

SubmitAnswerBegin(p, actor, id, textOk) ==
    /\ FreeSlot(p)
    /\ IF SubmitAnswerChecks(actor, id, textOk) # ""
       THEN Reject("submitAnswer", SubmitAnswerChecks(actor, id, textOk))
       ELSE /\ na + Cardinality(InFlight(AnswerLabels)) < MaxA
            /\ LogRoom
            /\ Goto(p, "sa_insert", Loc(actor, id, AnswerStatus(actor), 0))
            /\ last' = NoResp
            /\ UNCHANGED <<questions, answers, log, nq, na, viewCalls>>

\* storage.createAnswer
SubmitAnswerInsert(p) ==
    /\ pc[p] = "sa_insert"
    /\ answers' = createAnswer(answers, na + 1,
                               [questionId |-> loc[p].id, createdBy |-> loc[p].actor,
                                status |-> loc[p].status])
    /\ na' = na + 1
    /\ Goto(p, "sa_log", Loc(loc[p].actor, 0, "", 0))
    /\ UNCHANGED <<questions, log, nq, last, viewCalls>>

\* storage.logActivity, the notification mail (its failure is caught), 201
SubmitAnswerLog(p) ==
    /\ pc[p] = "sa_log"
    /\ log' = logActivity(log, loc[p].actor, "Answered question")
    /\ Finish(p, "submitAnswer", "Created")
    /\ UNCHANGED <<questions, answers, nq, na, viewCalls>>

\* -------------------------------------- PATCH /api/answers/:id/status
\* the answer checks with the role gate of the question route
SetAnswerStatusChecksSupervisor(actor, status) ==
    IF Role(actor) \notin {"admin", "supervisor"} THEN "Forbidden"
    ELSE IF status \notin {"pending", "approved", "rejected"} THEN "InvalidStatus"
    ELSE ""

\* requireRole(["admin"]) and the status check
SetAnswerStatusChecks(actor, status) ==
    IF Role(actor) \notin {"admin"} THEN "Forbidden"
    ELSE IF status \notin {"pending", "approved", "rejected"} THEN "InvalidStatus"
    ELSE ""

\* the checks, storage.updateAnswerStatus
SetAnswerStatusBegin(p, actor, id, status) ==
    /\ FreeSlot(p)
    /\ IF SetAnswerStatusChecks(actor, status) # ""
       THEN Reject("setAnswerStatus", SetAnswerStatusChecks(actor, status))
       ELSE /\ LogRoom
            /\ answers' = updateAnswerStatus(answers, id, status)
            /\ Goto(p, "as_log", Loc(actor, 0, "", 0))
            /\ last' = NoResp
            /\ UNCHANGED <<questions, log, nq, na, viewCalls>>

\* storage.logActivity, 200
SetAnswerStatusLog(p) ==
    /\ pc[p] = "as_log"
    /\ log' = logActivity(log, loc[p].actor, "Updated answer status")
    /\ Finish(p, "setAnswerStatus", "OK")
    /\ UNCHANGED <<questions, answers, nq, na, viewCalls>>

\* -------------------------------------------------- POST /api/answers
\* insertAnswerSchema.parse, storage.getQuestionById, the admin check
PostAnswerChecks(actor, id, valid) ==
    IF ~valid THEN "ValidationError"
    ELSE IF getQuestionById(id) = {} THEN "NotFound"
    ELSE IF Role(actor) # "admin" THEN "Forbidden"
    ELSE ""

\* what insertAnswerSchema.parse returns for a body that passes: the questionId
\* and, when the body carries one, the status key
ValidatedAnswer(id, bodyStatus) ==
    IF bodyStatus = "" THEN [questionId |-> id]
    ELSE [questionId |-> id, status |-> bodyStatus]

\* the spread written last: the keys of the body win
AnswerValuesSpreadLast(actor, validatedData) ==
    validatedData @@ [createdBy |-> actor, status |-> "approved"]

\* {...validatedData, createdBy: req.user.id, status: "approved"}: the keys
\* written after the spread win
AnswerValues(actor, validatedData) ==
    [createdBy |-> actor, status |-> "approved"] @@ validatedData

\* the checks up to the admin check; the body may carry a status key
PostAnswerRequest(p, actor, id, valid, bodyStatus) ==
    /\ FreeSlot(p)
    /\ IF PostAnswerChecks(actor, id, valid) # ""
       THEN Reject("postAnswer", PostAnswerChecks(actor, id, valid))
       ELSE /\ na + Cardinality(InFlight(AnswerLabels)) < MaxA
            /\ LogRoom
            /\ Goto(p, "pa_insert", Loc(actor, id, bodyStatus, 0))
            /\ last' = NoResp
            /\ UNCHANGED <<questions, answers, log, nq, na, viewCalls>>

\* a request whose body carries no status key
PostAnswerBegin(p, actor, id, valid) == PostAnswerRequest(p, actor, id, valid, "")

\* storage.createAnswer with status "approved"
PostAnswerInsert(p) ==
    /\ pc[p] = "pa_insert"
    /\ answers' = createAnswer(answers, na + 1,
                               AnswerValues(loc[p].actor,
                                            ValidatedAnswer(loc[p].id, loc[p].status)))
    /\ na' = na + 1
    /\ Goto(p, "pa_final", Loc(loc[p].actor, loc[p].id, "", 0))
    /\ UNCHANGED <<questions, log, nq, last, viewCalls>>

\* storage.updateQuestionFinalStatus(questionId, 1)
PostAnswerFinal(p) ==
    /\ pc[p] = "pa_final"
    /\ questions' = updateQuestionFinalStatus(questions, loc[p].id, 1)
    /\ Goto(p, "pa_log", Loc(loc[p].actor, 0, "", 0))
    /\ UNCHANGED <<answers, log, nq, na, last, viewCalls>>

\* storage.logActivity, 201
PostAnswerLog(p) ==
    /\ pc[p] = "pa_log"
    /\ log' = logActivity(log, loc[p].actor, "Created answer for question")
    /\ Finish(p, "postAnswer", "Created")
    /\ UNCHANGED <<questions, answers, nq, na, viewCalls>>

\* ------------- AdminPostModal.createQuestionWithAnswerMutation (client)
\* The admin's modal sends POST /api/questions with isFinal: 1 and, once the
\* response is in, POST /api/answers with the id of the question in the response;
\* a request that fails ends the mutation (onError) and nothing is undone.  The
\* slot holds the mutation and the request it is waiting for.

\* the first request up to storage.createQuestion (an admin is not throttled)
CombinedPostBegin(p, actor, valid) ==
    /\ FreeSlot(p)
    /\ IF SubmitQuestionChecks(actor, valid) # ""
       THEN Reject("combinedPost", SubmitQuestionChecks(actor, valid))
       ELSE /\ nq + Cardinality(InFlight({"sq_insert"})) < MaxQ
            /\ na + Cardinality(InFlight(AnswerLabels)) < MaxA
            /\ LogRoomFor(2)
            /\ questions' = createQuestion(questions, nq + 1,
                                           QuestionValues(actor, ValidatedData(""), 1))
            /\ nq' = nq + 1
            /\ Goto(p, "cp_qlog", Loc(actor, nq + 1, "", 0))
            /\ last' = NoResp
            /\ UNCHANGED <<answers, log, na, viewCalls>>

\* the first request's storage.logActivity and its 201 with the created question
CombinedQuestionLog(p) ==
    /\ pc[p] = "cp_qlog"
    /\ log' = logActivity(log, loc[p].actor, "Created question")
    /\ Goto(p, "cp_answer", loc[p])
    /\ last' = Resp("submitQuestion", "Created")
    /\ UNCHANGED <<questions, answers, nq, na, viewCalls>>

\* the second request, POST /api/answers with questionId: question.id, up to the
\* admin check
CombinedAnswerBegin(p, valid) ==
    /\ pc[p] = "cp_answer"
    /\ IF PostAnswerChecks(loc[p].actor, loc[p].id, valid) # ""
       THEN /\ Finish(p, "combinedPost", PostAnswerChecks(loc[p].actor, loc[p].id, valid))
            /\ UNCHANGED <<questions, answers, log, nq, na, viewCalls>>
       ELSE /\ Goto(p, "cp_ainsert", loc[p])
            /\ last' = NoResp
            /\ UNCHANGED <<questions, answers, log, nq, na, viewCalls>>

\* the second request's storage.createAnswer with status "approved"
CombinedAnswerInsert(p) ==
    /\ pc[p] = "cp_ainsert"
    /\ answers' = createAnswer(answers, na + 1,
                               [questionId |-> loc[p].id, createdBy |-> loc[p].actor,
                                status |-> "approved"])
    /\ na' = na + 1
    /\ Goto(p, "cp_final", loc[p])
    /\ UNCHANGED <<questions, log, nq, last, viewCalls>>

\* the second request's storage.updateQuestionFinalStatus(questionId, 1)
CombinedAnswerFinal(p) ==
    /\ pc[p] = "cp_final"
    /\ questions' = updateQuestionFinalStatus(questions, loc[p].id, 1)
    /\ Goto(p, "cp_alog", loc[p])
    /\ UNCHANGED <<answers, log, nq, na, last, viewCalls>>

\* the second request's storage.logActivity and 201; the mutation returns
CombinedAnswerLog(p) ==
    /\ pc[p] = "cp_alog"
    /\ log' = logActivity(log, loc[p].actor, "Created answer for question")
    /\ Finish(p, "combinedPost", "Created")
    /\ UNCHANGED <<questions, answers, nq, na, viewCalls>>

\* ------------------------------------------------------ specifications
\* The handlers, each with the inputs a request may carry.
SubmitQuestion(p, BodyIsFinal) ==
    \/ \E actor \in Users, valid \in BOOLEAN, bodyIsFinal \in BodyIsFinal :
           SubmitQuestionBegin(p, actor, valid, bodyIsFinal)
    \/ SubmitQuestionInsert(p)
    \/ SubmitQuestionLog(p)

\* the same handler, the body carrying any status key
SubmitQuestionAnyStatus(p) ==
    \/ \E actor \in Users, valid \in BOOLEAN, bodyStatus \in BodyStatuses,
          bodyIsFinal \in {0, 1} :
           SubmitQuestionRequest(p, actor, valid, bodyStatus, bodyIsFinal)
    \/ SubmitQuestionInsert(p)
    \/ SubmitQuestionLog(p)

ViewQuestion(p) ==
    \/ \E actor \in Users, id \in QIds : ViewQuestionBegin(p, actor, id)
    \/ ViewQuestionIncrement(p)

SetQuestionStatus(p) ==
    \/ \E actor \in Users, id \in QIds, status \in StatusInputs :
           SetQuestionStatusBegin(p, actor, id, status)
    \/ SetQuestionStatusLog(p)

DeleteQuestion(p) ==
    \/ \E actor \in Users, id \in QIds : DeleteQuestionBegin(p, actor, id)
    \/ DeleteQuestionAnswers(p)
    \/ DeleteQuestionRow(p)
    \/ DeleteQuestionLog(p)

SubmitAnswer(p) ==
    \/ \E actor \in Users, id \in QIds, textOk \in BOOLEAN :
           SubmitAnswerBegin(p, actor, id, textOk)
    \/ SubmitAnswerInsert(p)
    \/ SubmitAnswerLog(p)

SetAnswerStatus(p) ==
    \/ \E actor \in Users, id \in AIds, status \in StatusInputs :
           SetAnswerStatusBegin(p, actor, id, status)
    \/ SetAnswerStatusLog(p)

PostAnswer(p) ==
    \/ \E actor \in Users, id \in QIds, valid \in BOOLEAN :
           PostAnswerBegin(p, actor, id, valid)
    \/ PostAnswerInsert(p)
    \/ PostAnswerFinal(p)
    \/ PostAnswerLog(p)

\* the same handler, the body carrying any status key
PostAnswerAnyStatus(p) ==
    \/ \E actor \in Users, id \in QIds, valid \in BOOLEAN, bodyStatus \in BodyStatuses :
           PostAnswerRequest(p, actor, id, valid, bodyStatus)
    \/ PostAnswerInsert(p)
    \/ PostAnswerFinal(p)
    \/ PostAnswerLog(p)

\* the modal is the admin's
CombinedPost(p) ==
    \/ \E actor \in {u \in Users : Role(u) = "admin"}, valid \in BOOLEAN :
           CombinedPostBegin(p, actor, valid)
    \/ CombinedQuestionLog(p)
    \/ \E valid \in BOOLEAN : CombinedAnswerBegin(p, valid)
    \/ CombinedAnswerInsert(p)
    \/ CombinedAnswerFinal(p)
    \/ CombinedAnswerLog(p)

\* Every handler; requests arrive at any time and the steps of the running
\* handlers interleave.
Next ==
    \E p \in Procs :
        \/ SubmitQuestion(p, {0, 1})
        \/ ViewQuestion(p)
        \/ SetQuestionStatus(p)
        \/ DeleteQuestion(p)
        \/ SubmitAnswer(p)
        \/ SetAnswerStatus(p)
        \/ PostAnswer(p)

Spec == Init /\ [][Next]_vars

\* The question lifecycle: submission, moderation and deletion, interleaved.
NextQuestions ==
    \E p \in Procs : SubmitQuestion(p, {0}) \/ SetQuestionStatus(p) \/ DeleteQuestion(p)

SpecQuestions == Init /\ [][NextQuestions]_vars

\* The question lifecycle, one request at a time: a single request slot.
NextQuestionsSeq == SubmitQuestion(1, {0}) \/ SetQuestionStatus(1) \/ DeleteQuestion(1)

SpecQuestionsSeq == Init /\ [][NextQuestionsSeq]_vars

\* Viewers of questions beside their submission.
NextViews ==
    \E p \in Procs : SubmitQuestion(p, {0}) \/ ViewQuestion(p)

SpecViews == Init /\ [][NextViews]_vars

\* Every handler that reads or writes a question without removing it, one request
\* at a time.
NextFinalSeq ==
    \/ SubmitQuestion(1, {0, 1})
    \/ PostAnswer(1)
    \/ SubmitAnswer(1)
    \/ SetQuestionStatus(1)
    \/ ViewQuestion(1)

SpecFinalSeq == Init /\ [][NextFinalSeq]_vars

\* Deletion beside the answers it cascades to.
NextDelete ==
    \E p \in Procs :
        \/ SubmitQuestion(p, {0})
        \/ SetQuestionStatus(p)
        \/ DeleteQuestion(p)
        \/ SubmitAnswer(p)

SpecDelete == Init /\ [][NextDelete]_vars

\* The two ways to answer a question, beside its submission.
NextAnswers ==
    \E p \in Procs : SubmitQuestion(p, {0, 1}) \/ SubmitAnswer(p) \/ PostAnswer(p)

SpecAnswers == Init /\ [][NextAnswers]_vars

\* Question submissions with every body, interleaved.
NextSubmit == \E p \in Procs : SubmitQuestionAnyStatus(p)

SpecSubmit == Init /\ [][NextSubmit]_vars

\* Answers: their submission on either path and their moderation, interleaved.
NextAnswerModeration ==
    \E p \in Procs :
        \/ SubmitQuestion(p, {0})
        \/ SubmitAnswer(p)
        \/ PostAnswer(p)
        \/ SetAnswerStatus(p)

SpecAnswerModeration == Init /\ [][NextAnswerModeration]_vars

\* Moderation of questions and answers beside their submission, interleaved.
NextModeration ==
    \E p \in Procs :
        \/ SubmitQuestion(p, {0})
        \/ SetQuestionStatus(p)
        \/ SubmitAnswer(p)
        \/ SetAnswerStatus(p)

SpecModeration == Init /\ [][NextModeration]_vars

\* Submission and moderation of questions and answers on every path, one request
\* at a time.
NextModerationSeq ==
    \/ SubmitQuestion(1, {0})
    \/ SetQuestionStatus(1)
    \/ SubmitAnswer(1)
    \/ PostAnswer(1)
    \/ SetAnswerStatus(1)

SpecModerationSeq == Init /\ [][NextModerationSeq]_vars

\* The admin's combined post beside plain submissions and ordinary answers,
\* interleaved.
NextCombined ==
    \E p \in Procs : CombinedPost(p) \/ SubmitQuestion(p, {0}) \/ SubmitAnswer(p)

SpecCombined == Init /\ [][NextCombined]_vars

\* ---------------------------------------------------------------- claims
\* the steps in which a handler takes a request with the given inputs
SubmitQuestionCall(actor, valid, bodyIsFinal) ==
    \E p \in Procs : SubmitQuestionBegin(p, actor, valid, bodyIsFinal)

SubmitAnswerCall(actor, id, textOk) ==
    \E p \in Procs : SubmitAnswerBegin(p, actor, id, textOk)

DeleteQuestionCall(actor, id) == \E p \in Procs : DeleteQuestionBegin(p, actor, id)

\* the step changes no table and starts no handler
NothingChanges == questions' = questions /\ answers' = answers /\ log' = log /\ pc' = pc

\* the pending questions a user is the author of
Pending(u) ==
    {q \in DOMAIN questions : questions[q].createdBy = u /\ questions[q].status = "pending"}

IsFinal(q) == q \in DOMAIN questions /\ questions[q].isFinal # 0

\* C1: once a question's isFinal flag is true it stays true in every later state
\* in which the question exists.
C1_IsFinalNeverReverts ==
    [][\A q \in DOMAIN questions \cap DOMAIN questions' :
          questions[q].isFinal # 0 => questions'[q].isFinal # 0]_vars

\* an admin's question, final since it was created, has since been answered directly
\* and rejected, and is still final
C1_Witness ==
    \E q \in DOMAIN questions :
        /\ questions[q].createdBy = "a1"
        /\ questions[q].status = "rejected"
        /\ \E a \in DOMAIN answers : answers[a].questionId = q
        /\ questions[q].isFinal = 1

\* every view call that found the question and has run its increment is in views
ViewsCounted ==
    \A q \in DOMAIN questions :
        questions[q].views + Cardinality({p \in Procs : pc[p] = "gv_incr" /\ loc[p].id = q})
            = viewCalls[q]

\* C2: views never decreases, each view call adds exactly 1, and under concurrent
\* viewers no increment is lost: views is the number of view calls that have run
\* their increment.
C2_ViewsCountEveryCall ==
    /\ []ViewsCounted
    /\ [][\A q \in DOMAIN questions \cap DOMAIN questions' :
             /\ questions'[q].views >= questions[q].views
             /\ (\E p \in Procs : ViewQuestionIncrement(p) /\ loc[p].id = q)
                    => questions'[q].views = questions[q].views + 1]_vars

\* two viewers read views = 0; one has incremented, the other is about to
C2_Witness ==
    \E q \in DOMAIN questions :
        /\ questions[q].views = 1
        /\ \E p \in Procs : pc[p] = "gv_incr" /\ loc[p].id = q /\ loc[p].views = 0

\* C3: the throttle is race-safe: whenever a supervisor's question is inserted, that
\* supervisor has no pending question at that moment.
C3_ThrottleRaceSafe ==
    [][\A p \in Procs : SubmitQuestionInsert(p) => Pending(loc[p].actor) = {}]_vars

\* C4: a supervisor's (well-formed) submitQuestion is answered ThrottleViolation and
\* inserts nothing when the supervisor has a pending question; when the supervisor
\* has none it goes on to insert a pending question of that supervisor and is
\* answered Created.
C4_ThrottleThenSuccess ==
    /\ [][\A actor \in Users, bodyIsFinal \in {0, 1} :
             (Role(actor) = "supervisor" /\ SubmitQuestionCall(actor, TRUE, bodyIsFinal))
                 => IF Pending(actor) # {}
                    THEN /\ last' = Resp("submitQuestion", "ThrottleViolation")
                         /\ NothingChanges
                    ELSE \E p \in Procs : pc'[p] = "sq_insert" /\ loc'[p].actor = actor]_vars
    /\ [][\A p \in Procs :
             pc[p] = "sq_insert"
                 => /\ nq + 1 \in DOMAIN questions' \ DOMAIN questions
                    /\ questions'[nq + 1].createdBy = loc[p].actor
                    /\ questions'[nq + 1].status = "pending"
                    /\ pc'[p] = "sq_log"]_vars
    /\ [][\A p \in Procs :
             pc[p] = "sq_log"
                 => last' = Resp("submitQuestion", "Created") /\ questions' = questions]_vars

\* the supervisor's first question has been moderated and the second submission
\* has succeeded
C4_Witness ==
    /\ {1, 2} \subseteq DOMAIN questions
    /\ questions[1].createdBy = "s1" /\ questions[1].status \in {"approved", "rejected"}
    /\ questions[2].createdBy = "s1" /\ questions[2].status = "pending"
    /\ last = Resp("submitQuestion", "Created")

\* C5: each supervisor is the author of at most one pending question.
C5_AtMostOnePending ==
    \A u \in Users : Role(u) = "supervisor" => Cardinality(Pending(u)) <= 1

\* C5 amended: one request at a time, a supervisor's pending questions grow beyond
\* one only by a setQuestionStatus moving a question of theirs back to pending,
\* never by a submitQuestion.
C5_SecondPendingOnlyByStatusChange ==
    [][\A u \in Users :
          (/\ Role(u) = "supervisor"
           /\ Cardinality(Pending(u)') > Cardinality(Pending(u))
           /\ Cardinality(Pending(u)') > 1)
              => /\ nq' = nq
                 /\ \E q \in DOMAIN questions :
                        /\ questions[q].status # "pending"
                        /\ Pending(u)' = Pending(u) \cup {q}]_vars

\* a supervisor with two pending questions
C5_Witness == Cardinality(Pending("s1")) = 2

\* C6: a user-role submitAnswer is always answered Forbidden and creates no
\* answer, whether the question exists or not and whatever the answer text.
C6_UserAlwaysForbidden ==
    [][\A actor \in Users, id \in QIds, textOk \in BOOLEAN :
          (Role(actor) = "user" /\ SubmitAnswerCall(actor, id, textOk))
              => last'.kind = "Forbidden" /\ answers' = answers]_vars

\* C7 as claimed: submitAnswer on a final question is answered Locked for every
\* role and creates no answer and no log entry.
C7_FinalAlwaysLocked ==
    [][\A actor \in Users, id \in QIds, textOk \in BOOLEAN :
          (IsFinal(id) /\ SubmitAnswerCall(actor, id, textOk))
              => last'.kind = "Locked" /\ answers' = answers /\ log' = log]_vars

\* C7 amended: submitAnswer on a final question always fails and changes nothing,
\* for every role; it is answered ValidationError for an empty text, else Forbidden
\* for a user, else Locked.
C7_FinalNeverAnswered ==
    [][\A actor \in Users, id \in QIds, textOk \in BOOLEAN :
          (IsFinal(id) /\ SubmitAnswerCall(actor, id, textOk))
              => /\ NothingChanges
                 /\ last' = Resp("submitAnswer",
                                 IF ~textOk THEN "ValidationError"
                                 ELSE IF Role(actor) = "user" THEN "Forbidden"
                                 ELSE "Locked")]_vars

\* submitAnswer has been answered Locked
C7_Witness == last = Resp("submitAnswer", "Locked") /\ \E q \in QIds : IsFinal(q)

\* C8: the ordinary path never inserts an answer into a question that is final at
\* the moment of the insert.
C8_NoOrdinaryAnswerOnFinal ==
    [][\A p \in Procs : SubmitAnswerInsert(p) => ~IsFinal(loc[p].id)]_vars

\* C9: a question row is removed only by an admin's deleteQuestion and only while
\* its stored status is rejected.
C9_RemovedOnlyWhileRejected ==
    [][\A q \in DOMAIN questions \ DOMAIN questions' :
          /\ questions[q].status = "rejected"
          /\ \E p \in Procs :
                 pc[p] = "dq_question" /\ loc[p].id = q /\ Role(loc[p].actor) = "admin"]_vars

\* C10: deleteQuestion by a non-admin is answered Forbidden, by an admin on an
\* absent id NotFound, by an admin on a pending or approved question InvalidState;
\* in each case questions, answers and the log are unchanged.
C10_DeleteRejections ==
    [][\A actor \in Users, id \in QIds :
          DeleteQuestionCall(actor, id)
              => /\ Role(actor) # "admin"
                     => last' = Resp("deleteQuestion", "Forbidden") /\ NothingChanges
                 /\ (Role(actor) = "admin" /\ id \notin DOMAIN questions)
                     => last' = Resp("deleteQuestion", "NotFound") /\ NothingChanges
                 /\ (/\ Role(actor) = "admin"
                     /\ id \in DOMAIN questions
                     /\ questions[id].status \in {"pending", "approved"})
                     => last' = Resp("deleteQuestion", "InvalidState") /\ NothingChanges]_vars

\* deleteQuestion has been answered InvalidState on a question that has an answer
C10_Witness ==
    /\ last = Resp("deleteQuestion", "InvalidState")
    /\ \E q \in DOMAIN questions :
           /\ questions[q].status \in {"pending", "approved"}
           /\ \E a \in DOMAIN answers : answers[a].questionId = q

\* C11: no orphan answers: every stored answer refers to a stored question, also
\* while deleteQuestion interleaves with submitAnswer.
C11_NoOrphanAnswers ==
    \A a \in DOMAIN answers : answers[a].questionId \in DOMAIN questions

\* C12: deleteQuestion is all-or-nothing: a step that removes answers of a question
\* removes the question with them, so that no state has the answers gone and the
\* question still stored.
C12_DeleteAllOrNothing ==
    [][\A p \in Procs :
          (DeleteQuestionAnswers(p) /\ answers' # answers)
              => loc[p].id \notin DOMAIN questions']_vars

\* C13: a question created by submitQuestion has status approved exactly when its
\* author is an admin and pending otherwise, and views 0, whatever status the
\* request body carries.
C13_InitialStatusFromRole ==
    [][\A q \in DOMAIN questions' \ DOMAIN questions :
          /\ questions'[q].status =
                 (IF Role(questions'[q].createdBy) = "admin" THEN "approved" ELSE "pending")
          /\ questions'[q].views = 0]_vars

\* a non-admin's request carried status approved and an admin's carried status
\* rejected; both questions are inserted, pending and approved
C13_Witness ==
    /\ \E p \in Procs :
           /\ pc[p] = "sq_log" /\ loc[p].status = "approved"
           /\ Role(loc[p].actor) # "admin"
           /\ \E q \in DOMAIN questions : questions[q].createdBy = loc[p].actor
           /\ \A q \in DOMAIN questions :
                  questions[q].createdBy = loc[p].actor => questions[q].status = "pending"
    /\ \E p \in Procs :
           /\ pc[p] = "sq_log" /\ loc[p].status = "rejected"
           /\ Role(loc[p].actor) = "admin"
           /\ \E q \in DOMAIN questions :
                  questions[q].createdBy = loc[p].actor /\ questions[q].status = "approved"

\* C14: a question created by submitQuestion is final only when an admin posts it
\* through the combined question+answer path (the admin client's request with
\* isFinal: 1); a supervisor's or a user's question and an admin's plain question
\* are not final, whatever the request contains.
C14_FinalOnlyByCombinedPath ==
    [][/\ \A actor \in Users, valid \in BOOLEAN, bodyStatus \in BodyStatuses,
            bodyIsFinal \in {0, 1} :
             (\E p \in Procs : SubmitQuestionRequest(p, actor, valid, bodyStatus, bodyIsFinal))
                 => \A q \in DOMAIN questions' \ DOMAIN questions :
                        questions'[q].isFinal # 0
                            => Role(actor) = "admin" /\ bodyIsFinal = 1
       /\ \A p \in Procs :
             SubmitQuestionInsert(p)
                 => \A q \in DOMAIN questions' \ DOMAIN questions :
                        questions'[q].isFinal = 0]_vars

\* C15: an answer inserted by submitAnswer is approved when its author is an admin
\* and pending when its author is a supervisor; a supervisor's answer that is not
\* approved becomes approved only by an admin's setAnswerStatus naming approved.
C15_AnswerStatusFromRole ==
    [][/\ \A p \in Procs :
             SubmitAnswerInsert(p)
                 => \A a \in DOMAIN answers' \ DOMAIN answers :
                        answers'[a].status =
                            (IF Role(answers'[a].createdBy) = "admin" THEN "approved"
                             ELSE "pending")
       /\ \A a \in DOMAIN answers \cap DOMAIN answers' :
             (/\ Role(answers[a].createdBy) = "supervisor"
              /\ answers[a].status # "approved"
              /\ answers'[a].status = "approved")
                 => \E p \in Procs, actor \in Users :
                        /\ Role(actor) = "admin"
                        /\ SetAnswerStatusBegin(p, actor, a, "approved")]_vars

\* a supervisor's answer, pending when inserted, has been approved beside an
\* admin's answer that has been approved since its insertion
C15_Witness ==
    /\ last = Resp("setAnswerStatus", "OK")
    /\ \E a \in DOMAIN answers :
           answers[a].createdBy = "s1" /\ answers[a].status = "approved"
    /\ \E p \in Procs :
           /\ pc[p] = "sa_log" /\ loc[p].actor = "a1"
           /\ \E a \in DOMAIN answers :
                  answers[a].createdBy = "a1" /\ answers[a].status = "approved"

SetQuestionStatusCall(actor, id, status) ==
    \E p \in Procs : SetQuestionStatusBegin(p, actor, id, status)

SetAnswerStatusCall(actor, id, status) ==
    \E p \in Procs : SetAnswerStatusBegin(p, actor, id, status)

\* C16: the status of a stored question changes only in a setQuestionStatus call
\* by an admin or a supervisor and the status of a stored answer only in a
\* setAnswerStatus call by an admin; a call by any other role is answered
\* Forbidden and changes no table and no log.
C16_RoleGates ==
    [][/\ \A q \in DOMAIN questions \cap DOMAIN questions' :
             questions'[q].status # questions[q].status
                 => \E actor \in Users :
                        /\ Role(actor) \in {"admin", "supervisor"}
                        /\ SetQuestionStatusCall(actor, q, questions'[q].status)
       /\ \A a \in DOMAIN answers \cap DOMAIN answers' :
             answers'[a].status # answers[a].status
                 => \E actor \in Users :
                        /\ Role(actor) = "admin"
                        /\ SetAnswerStatusCall(actor, a, answers'[a].status)
       /\ \A actor \in Users, id \in QIds, status \in StatusInputs :
             (Role(actor) \notin {"admin", "supervisor"}
                  /\ SetQuestionStatusCall(actor, id, status))
                 => last' = Resp("setQuestionStatus", "Forbidden") /\ NothingChanges
       /\ \A actor \in Users, id \in AIds, status \in StatusInputs :
             (Role(actor) # "admin" /\ SetAnswerStatusCall(actor, id, status))
                 => last' = Resp("setAnswerStatus", "Forbidden") /\ NothingChanges]_vars

\* setAnswerStatus has been answered Forbidden while a supervisor's answer is
\* pending, and a user's question has been approved
C16_Witness ==
    /\ last = Resp("setAnswerStatus", "Forbidden")
    /\ \E a \in DOMAIN answers :
           answers[a].createdBy = "s1" /\ answers[a].status = "pending"
    /\ \E q \in DOMAIN questions :
           questions[q].createdBy = "u1" /\ questions[q].status = "approved"

\* every stored status is one of the enum
StatusesInEnum ==
    /\ \A q \in DOMAIN questions : questions[q].status \in Statuses
    /\ \A a \in DOMAIN answers : answers[a].status \in Statuses

\* C17: setQuestionStatus and setAnswerStatus with a status outside the enum are
\* answered InvalidStatus and change no status and no log; every stored status is
\* one of the enum.
C17_InvalidStatusAlways ==
    /\ []StatusesInEnum
    /\ [][/\ \A actor \in Users, id \in QIds, status \in StatusInputs \ Statuses :
                SetQuestionStatusCall(actor, id, status)
                    => last' = Resp("setQuestionStatus", "InvalidStatus") /\ NothingChanges
          /\ \A actor \in Users, id \in AIds, status \in StatusInputs \ Statuses :
                SetAnswerStatusCall(actor, id, status)
                    => last' = Resp("setAnswerStatus", "InvalidStatus") /\ NothingChanges]_vars

\* C17 amended: with a status outside the enum the two calls always fail and change
\* no status and no log: they are answered InvalidStatus when the caller passes
\* the role gate and Forbidden when not; every stored status is one of the enum.
C17_InvalidStatusRejected ==
    /\ []StatusesInEnum
    /\ [][/\ \A actor \in Users, id \in QIds, status \in StatusInputs \ Statuses :
                SetQuestionStatusCall(actor, id, status)
                    => /\ NothingChanges
                       /\ last' = Resp("setQuestionStatus",
                                       IF Role(actor) \in {"admin", "supervisor"}
                                       THEN "InvalidStatus" ELSE "Forbidden")
          /\ \A actor \in Users, id \in AIds, status \in StatusInputs \ Statuses :
                SetAnswerStatusCall(actor, id, status)
                    => /\ NothingChanges
                       /\ last' = Resp("setAnswerStatus",
                                       IF Role(actor) = "admin"
                                       THEN "InvalidStatus" ELSE "Forbidden")]_vars

\* setQuestionStatus has been answered InvalidStatus with a question and an answer
\* stored
C17_Witness ==
    /\ last = Resp("setQuestionStatus", "InvalidStatus")
    /\ DOMAIN questions # {} /\ DOMAIN answers # {}

\* C18: for every status s of a stored question and every newStatus t of the enum,
\* s = t included, a setQuestionStatus by an admin or a supervisor leaves the
\* question in status t and is answered OK; the same for a stored answer and a
\* setAnswerStatus by an admin.
C18_OpenTransitions ==
    [][/\ \A actor \in Users, q \in DOMAIN questions, t \in Statuses :
             (Role(actor) \in {"admin", "supervisor"} /\ SetQuestionStatusCall(actor, q, t))
                 => /\ questions'[q].status = t
                    /\ \E p \in Procs : pc[p] = "idle" /\ pc'[p] = "qs_log"
       /\ \A p \in Procs :
             SetQuestionStatusLog(p) => last' = Resp("setQuestionStatus", "OK")
       /\ \A actor \in Users, a \in DOMAIN answers, t \in Statuses :
             (Role(actor) = "admin" /\ SetAnswerStatusCall(actor, a, t))
                 => /\ answers'[a].status = t
                    /\ \E p \in Procs : pc[p] = "idle" /\ pc'[p] = "as_log"
       /\ \A p \in Procs :
             SetAnswerStatusLog(p) => last' = Resp("setAnswerStatus", "OK")]_vars

\* an admin's question, approved when created, is pending again and an admin's
\* answer, approved when created, is rejected
C18_Witness ==
    /\ \E q \in DOMAIN questions :
           questions[q].createdBy = "a1" /\ questions[q].status = "pending"
    /\ \E a \in DOMAIN answers :
           answers[a].createdBy = "a1" /\ answers[a].status = "rejected"

\* C19: approved and rejected are terminal: a question or an answer whose status
\* is approved or rejected never takes a different status.
C19_TerminalStatuses ==
    [][/\ \A q \in DOMAIN questions \cap DOMAIN questions' :
             questions[q].status \in {"approved", "rejected"}
                 => questions'[q].status = questions[q].status
       /\ \A a \in DOMAIN answers \cap DOMAIN answers' :
             answers[a].status \in {"approved", "rejected"}
                 => answers'[a].status = answers[a].status]_vars

\* C19 amended: approved and rejected are left only by moderation: a question or
\* an answer whose status is approved or rejected takes a different status exactly
\* in a setQuestionStatus (admin or supervisor) or setAnswerStatus (admin) call
\* that names the new status, and such a call always moves it.
C19_TerminalUntilModerated ==
    [][/\ \A q \in DOMAIN questions \cap DOMAIN questions', t \in Statuses :
             (questions[q].status \in {"approved", "rejected"} /\ t # questions[q].status)
                 => (questions'[q].status = t
                        <=> \E actor \in Users :
                                /\ Role(actor) \in {"admin", "supervisor"}
                                /\ SetQuestionStatusCall(actor, q, t))
       /\ \A a \in DOMAIN answers \cap DOMAIN answers', t \in Statuses :
             (answers[a].status \in {"approved", "rejected"} /\ t # answers[a].status)
                 => (answers'[a].status = t
                        <=> \E actor \in Users :
                                /\ Role(actor) = "admin"
                                /\ SetAnswerStatusCall(actor, a, t))]_vars

\* an admin's question, approved when created, is rejected and an admin's answer,
\* approved when created, is pending after a completed setAnswerStatus
C19_Witness ==
    /\ last = Resp("setAnswerStatus", "OK")
    /\ \E q \in DOMAIN questions :
           questions[q].createdBy = "a1" /\ questions[q].status = "rejected"
    /\ \E a \in DOMAIN answers :
           answers[a].createdBy = "a1" /\ answers[a].status = "pending"

\* the answers stored for a question
AnswersOf(as, q) == {a \in DOMAIN as : as[a].questionId = q}

\* the question of a combined post whose answer is stored: only the combined post
\* gives an admin's question an answer here
CombinedPosted(q) ==
    /\ q \in DOMAIN questions
    /\ Role(questions[q].createdBy) = "admin"
    /\ AnswersOf(answers, q) # {}

C21_CombinedPostRolledBack ==
    [][\A p \in Procs :
          (\E valid \in BOOLEAN : CombinedAnswerBegin(p, valid))
          /\ last'.op = "combinedPost" /\ last'.kind # "Created"
          => /\ loc[p].id \notin DOMAIN questions'
             /\ AnswersOf(answers', loc[p].id) = {}]_vars

\* ---------------------------------------------------------------- C22
\* C22: no partial application: a moderation call either applies its full
\* effect or changes nothing, so a call that passes its checks and goes on to
\* append its log entry has made its state change: the setQuestionStatus call
\* has set the status of a stored question and the setAnswerStatus call the
\* status of a stored answer.
C22_NoLogWithoutStateChange ==
    [][\A actor \in Users, status \in StatusInputs :
          /\ \A id \in QIds :
                 SetQuestionStatusCall(actor, id, status) /\ pc' # pc
                 => id \in DOMAIN questions' /\ questions'[id].status = status
          /\ \A id \in AIds :
                 SetAnswerStatusCall(actor, id, status) /\ pc' # pc
                 => id \in DOMAIN answers' /\ answers'[id].status = status]_vars

\* ------------------------------------- storage.logActivity throwing
\* storage.logActivity is awaited inside the handler's try block: when the
\* insert throws, no row is added and the handler's catch block answers (the
\* statements before it have been executed and stay).

\* POST /api/questions: catch -> 400 "Invalid question data"
SubmitQuestionLogFails(p) ==
    /\ pc[p] = "sq_log"
    /\ Finish(p, "submitQuestion", "ValidationError")
    /\ UNCHANGED <<questions, answers, log, nq, na, viewCalls>>

\* PATCH /api/questions/:id/status: catch -> 500
SetQuestionStatusLogFails(p) ==
    /\ pc[p] = "qs_log"
    /\ Finish(p, "setQuestionStatus", "ServerError")
    /\ UNCHANGED <<questions, answers, log, nq, na, viewCalls>>

LogActivityFails(p) ==
    \/ SubmitQuestionLogFails(p)
    \/ SetQuestionStatusLogFails(p)

\* Submission and moderation of questions, one request at a time, the insert
\* into activity_log failing at any time.
NextLogFailure ==
    \/ SubmitQuestion(1, {0})
    \/ SetQuestionStatus(1)
    \/ LogActivityFails(1)

SpecLogFailure == Init /\ [][NextLogFailure]_vars

\* ---------------------------------------------------------------- C23
\* C23: when persisting the log entry of a moderation operation fails, the
\* state change the operation has made stays committed and the caller receives
\* the success result: the failure of the log is not surfaced.
C23_LogFailureNotSurfaced ==
    [][\A p \in Procs :
          LogActivityFails(p)
          => /\ last'.kind \in {"Created", "OK"}
             /\ questions' = questions /\ answers' = answers]_vars

\* ------------------------------------------- the notification mails
\* POST /api/questions and POST /api/questions/:id/answers with the mail they
\* await between storage.logActivity and the 201.  emailService catches what
\* transporter.sendMail throws and returns false, and the handler wraps the call
\* in a try/catch of its own: a mail that cannot be sent ends in a catch block
\* (console.error) and the handler goes on.

\* storage.logActivity; a user's question is followed by the mail to IT
SubmitQuestionLogged(p) ==
    /\ pc[p] = "sq_log"
    /\ log' = logActivity(log, loc[p].actor, "Created question")
    /\ IF Role(loc[p].actor) = "user"
       THEN Goto(p, "sq_mail", loc[p]) /\ last' = last
       ELSE Finish(p, "submitQuestion", "Created")
    /\ UNCHANGED <<questions, answers, nq, na, viewCalls>>

\* emailService.sendIssueNotification: the mail is delivered or it is not
SubmitQuestionMail(p, delivered) ==
    /\ pc[p] = "sq_mail"
    /\ Goto(p, IF delivered THEN "sq_mailed" ELSE "sq_mailfailed", loc[p])
    /\ UNCHANGED <<questions, answers, log, nq, na, last, viewCalls>>

\* the mail is out: 201
SubmitQuestionMailed(p) ==
    /\ pc[p] = "sq_mailed"
    /\ Finish(p, "submitQuestion", "Created")
    /\ UNCHANGED <<questions, answers, log, nq, na, viewCalls>>

\* the failure rethrown to the handler's outer catch: 400
SubmitQuestionMailRethrown(p) ==
    /\ pc[p] = "sq_mailfailed"
    /\ Finish(p, "submitQuestion", "ValidationError")
    /\ UNCHANGED <<questions, answers, log, nq, na, viewCalls>>

\* the failure is caught and printed ("Don't fail the question creation if
\* email fails"): 201
SubmitQuestionMailFailed(p) ==
    /\ pc[p] = "sq_mailfailed"
    /\ Finish(p, "submitQuestion", "Created")
    /\ UNCHANGED <<questions, answers, log, nq, na, viewCalls>>

\* the mail sent about every answer, whoever wrote it
SubmitAnswerLoggedMailAll(p) ==
    /\ pc[p] = "sa_log"
    /\ log' = logActivity(log, loc[p].actor, "Answered question")
    /\ Goto(p, "sa_mail", loc[p]) /\ last' = last
    /\ UNCHANGED <<questions, answers, nq, na, viewCalls>>

\* storage.logActivity; a supervisor's pending answer is followed by the mail
SubmitAnswerLogged(p) ==
    /\ pc[p] = "sa_log"
    /\ log' = logActivity(log, loc[p].actor, "Answered question")
    /\ IF Role(loc[p].actor) = "supervisor" /\ AnswerStatus(loc[p].actor) = "pending"
       THEN Goto(p, "sa_mail", loc[p]) /\ last' = last
       ELSE Finish(p, "submitAnswer", "Created")
    /\ UNCHANGED <<questions, answers, nq, na, viewCalls>>

\* emailService.sendAnswerApprovalNotification: delivered or not
SubmitAnswerMail(p, delivered) ==
    /\ pc[p] = "sa_mail"
    /\ Goto(p, IF delivered THEN "sa_mailed" ELSE "sa_mailfailed", loc[p])
    /\ UNCHANGED <<questions, answers, log, nq, na, last, viewCalls>>

\* the mail is out: 201
SubmitAnswerMailed(p) ==
    /\ pc[p] = "sa_mailed"
    /\ Finish(p, "submitAnswer", "Created")
    /\ UNCHANGED <<questions, answers, log, nq, na, viewCalls>>

\* the failure is caught and printed ("Don't fail the answer creation if email
\* fails"): 201
SubmitAnswerMailFailed(p) ==
    /\ pc[p] = "sa_mailfailed"
    /\ Finish(p, "submitAnswer", "Created")
    /\ UNCHANGED <<questions, answers, log, nq, na, viewCalls>>

SubmitQuestionNotifying(p) ==
    \/ \E actor \in Users, valid \in BOOLEAN : SubmitQuestionBegin(p, actor, valid, 0)
    \/ SubmitQuestionInsert(p)
    \/ SubmitQuestionLogged(p)
    \/ \E delivered \in BOOLEAN : SubmitQuestionMail(p, delivered)
    \/ SubmitQuestionMailed(p)
    \/ SubmitQuestionMailFailed(p)

SubmitAnswerNotifying(p) ==
    \/ \E actor \in Users, id \in QIds, textOk \in BOOLEAN :
           SubmitAnswerBegin(p, actor, id, textOk)
    \/ SubmitAnswerInsert(p)
    \/ SubmitAnswerLogged(p)
    \/ \E delivered \in BOOLEAN : SubmitAnswerMail(p, delivered)
    \/ SubmitAnswerMailed(p)
    \/ SubmitAnswerMailFailed(p)

\* Questions and ordinary answers with their notification mails, one request
\* at a time.
NextNotify == SubmitQuestionNotifying(1) \/ SubmitAnswerNotifying(1)

SpecNotify == Init /\ [][NextNotify]_vars

\* ---------------------------------------------------------------- C24
\* C24: a notification that cannot be sent never fails or rolls back the
\* operation: after the failure the user's question, respectively the
\* supervisor's answer, is stored with its normal status (pending), its log
\* entry is written, no table changes any more and the caller receives Created.
C24_MailFailureSwallowed ==
    [][\A p \in Procs :
          /\ pc[p] = "sq_mailfailed"
             => /\ last' = Resp("submitQuestion", "Created")
                /\ nq \in DOMAIN questions'
                /\ questions'[nq] = [createdBy |-> loc[p].actor, status |-> "pending",
                                     views |-> 0, isFinal |-> 0]
                /\ BagIn([userId |-> loc[p].actor, action |-> "Created question"], log')
                /\ questions' = questions /\ answers' = answers /\ log' = log
          /\ pc[p] = "sa_mailfailed"
             => /\ last' = Resp("submitAnswer", "Created")
                /\ na \in DOMAIN answers'
                /\ answers'[na].createdBy = loc[p].actor
                /\ answers'[na].status = "pending"
                /\ BagIn([userId |-> loc[p].actor, action |-> "Answered question"], log')
                /\ questions' = questions /\ answers' = answers /\ log' = log]_vars

\* a user's question and a supervisor's answer to an approved question are
\* stored, the mail about the answer has just failed
C24_Witness ==
    /\ \E p \in Procs : pc[p] = "sa_mailfailed" /\ Role(loc[p].actor) = "supervisor"
    /\ \E q \in DOMAIN questions :
           Role(questions[q].createdBy) = "user" /\ questions[q].status = "pending"
    /\ \E a \in DOMAIN answers : answers[a].status = "pending"

\* -------------------------------------------------- DELETE /api/users/:id
\* requireRole(["admin"]), the own-account check, storage.deleteUser: DELETE
\* FROM users WHERE id = id.  The accounts are the constant set Users (the users
\* table is not part of the state); the statement touches no other table: no
\* table references users with a cascade.
DeleteUserChecks(actor, id) ==
    IF Role(actor) \notin {"admin"} THEN "Forbidden"
    ELSE IF id = actor THEN "ValidationError"
    ELSE ""

DeleteUserBegin(p, actor, id) ==
    /\ FreeSlot(p)
    /\ IF DeleteUserChecks(actor, id) # ""
       THEN Reject("deleteUser", DeleteUserChecks(actor, id))
       ELSE Reject("deleteUser", "OK")

DeleteUser(p) == \E actor \in Users, id \in Users : DeleteUserBegin(p, actor, id)

\* Every handler that deletes rows, beside the submissions and the moderation
\* that fill the tables and the log.
NextAudit ==
    \E p \in Procs :
        \/ SubmitQuestion(p, {0})
        \/ SetQuestionStatus(p)
        \/ DeleteQuestion(p)
        \/ SubmitAnswer(p)
        \/ DeleteUser(p)

SpecAudit == Init /\ [][NextAudit]_vars

\* ---------------------------------------------------------------- C25
\* C25: the activity log is append-only: in every step the log after the step
\* extends the log before it; no entry is modified or removed, also not when
\* questions, answers or users are deleted.
C25_LogAppendOnly == [][log \sqsubseteq log']_vars

\* a user has been deleted after a question (with its answers) was: the log
\* still holds the rows written until then
C25_Witness ==
    /\ last = Resp("deleteUser", "OK")
    /\ BagIn([userId |-> "a1", action |-> "Deleted rejected question"], log)
    /\ BagCardinality(log) >= 3
    /\ nq > Cardinality(DOMAIN questions)

\* ---------------------------------------------- GET /api/activity/:userId
\* a response with a body: res.json(rows); an error response carries only its
\* message: no rows
RespBody(op, kind, body) == [op |-> op, kind |-> kind, body |-> body]

\* DatabaseStorage.getUserActivity, first statement: SELECT ... FROM questions
\* WHERE created_by = userId, each row tagged 'question'
getUserQuestions(userId) ==
    {<<"question", q>> : q \in {r \in DOMAIN questions : questions[r].createdBy = userId}}

\* second statement: SELECT ... FROM answers WHERE created_by = userId, each
\* row tagged 'answer'
getUserAnswers(userId) ==
    {<<"answer", a>> : a \in {r \in DOMAIN answers : answers[r].createdBy = userId}}

\* the check that lets supervisors in as well
GetActivityChecksStaff(actor, userId) ==
    IF userId # actor /\ Role(actor) \notin {"admin", "supervisor"} THEN "Forbidden" ELSE ""

\* req.params.userId !== req.user.id && req.user.role !== "admin": 403
GetActivityChecks(actor, userId) ==
    IF userId # actor /\ Role(actor) # "admin" THEN "Forbidden" ELSE ""

\* the check and the first statement of storage.getUserActivity
GetActivityBegin(p, actor, userId) ==
    /\ FreeSlot(p)
    /\ IF GetActivityChecks(actor, userId) # ""
       THEN /\ last' = RespBody("getActivity", GetActivityChecks(actor, userId), {})
            /\ UNCHANGED <<questions, answers, log, nq, na, pc, loc, viewCalls>>
       ELSE /\ Goto(p, "ga_answers",
                    [actor |-> actor, userId |-> userId, rows |-> getUserQuestions(userId)])
            /\ last' = NoResp
            /\ UNCHANGED <<questions, answers, log, nq, na, viewCalls>>

\* the second statement; the two results are merged (their order by createdAt
\* is left out) and sent
GetActivityAnswers(p) ==
    /\ pc[p] = "ga_answers"
    /\ last' = RespBody("getActivity", "OK",
                        loc[p].rows \cup getUserAnswers(loc[p].userId))
    /\ pc' = [pc EXCEPT ![p] = "idle"]
    /\ loc' = [loc EXCEPT ![p] = NoLoc]
    /\ UNCHANGED <<questions, answers, log, nq, na, viewCalls>>

GetActivity(p) ==
    \/ \E actor \in Users, userId \in Users : GetActivityBegin(p, actor, userId)
    \/ GetActivityAnswers(p)

\* Reading a user's activity beside the submissions that make it, interleaved.
NextActivity ==
    \E p \in Procs : SubmitQuestion(p, {0}) \/ SubmitAnswer(p) \/ GetActivity(p)

SpecActivity == Init /\ [][NextActivity]_vars

\* ---------------------------------------------------------------- C26
GetActivityCall(actor, userId) == \E p \in Procs : GetActivityBegin(p, actor, userId)

\* C26: getActivity(userId) by an actor who is neither that user nor an admin
\* fails with Forbidden, returns none of that user's questions or answers and
\* changes nothing; for the user themselves and for any admin it succeeds and
\* returns that user's questions and answers.
C26_ActivityOwnerOrAdmin ==
    [][/\ \A actor \in Users, userId \in Users :
              GetActivityCall(actor, userId)
              => IF actor # userId /\ Role(actor) # "admin"
                 THEN /\ last' = RespBody("getActivity", "Forbidden", {})
                      /\ NothingChanges
                 ELSE \E p \in Procs :
                          /\ pc[p] = "idle" /\ pc'[p] = "ga_answers"
                          /\ loc'[p].rows =
                                 {<<"question", q>> : q \in {r \in DOMAIN questions :
                                                      questions[r].createdBy = userId}}
       /\ \A p \in Procs :
              GetActivityAnswers(p)
              => /\ last'.kind = "OK"
                 /\ last'.body = loc[p].rows \cup
                        {<<"answer", a>> : a \in {r \in DOMAIN answers :
                                           answers[r].createdBy = loc[p].userId}}
       /\ last'.op = "getActivity" /\ last'.kind = "Forbidden" => last'.body = {}]_vars

\* a question of the user and an answer of the supervisor are stored and a
\* request for somebody else's activity has just been refused
C26_Witness ==
    /\ last = RespBody("getActivity", "Forbidden", {})
    /\ \E q \in DOMAIN questions : questions[q].createdBy = "u1"
    /\ \E a \in DOMAIN answers : answers[a].createdBy = "s1"

\* ------------------------------------------------- GET /api/questions
\* DatabaseStorage.getQuestions: the join, the sort keys and the ORDER BY.  The
\* rows of questions carry their created_at here, in whole hours.

\* NOW(), in hours
NowHour == 20000

\* the created_at values drawn: this hour, the hour before, and further back
CreatedAts == {NowHour - 20000, NowHour - 201, NowHour - 200, NowHour - 1, NowHour}

\* what ?sortBy= may carry; anything else (and its absence) sorts as "recent"
SortBys == {"trending", "recent", "views", "answers"}

\* the join without the status condition: every answer of the question counts
answerCountAnyStatus(q) ==
    Cardinality({a \in DOMAIN answers : answers[a].questionId = q})

\* LEFT JOIN answers ON answers.question_id = questions.id AND answers.status =
\* 'approved' ... GROUP BY questions.id: COUNT(answers.id)
answerCount(q) ==
    Cardinality({a \in DOMAIN answers :
                    answers[a].questionId = q /\ answers[a].status = "approved"})

\* TIMESTAMPDIFF(HOUR, created_at, NOW()): whole hours
hoursSince(q) == NowHour - questions[q].createdAt

\* a score that grows with the age
trendingScoreAgeBoost(views, count, hours) == (views + count * 2) * (hours + 1)

\* (views + COUNT * 2) / (TIMESTAMPDIFF + 1): MySQL divides two integers into a
\* DECIMAL with four decimal places (div_precision_increment), rounded half
\* up; the value is given in units of 1/10000
trendingScore(views, count, hours) ==
    (2 * 10000 * (views + count * 2) + (hours + 1)) \div (2 * (hours + 1))

\* the expression of the ORDER BY ... DESC
SortKey(q, sortBy) ==
    CASE sortBy = "views" -> questions[q].views
      [] sortBy = "answers" -> answerCount(q)
      [] sortBy = "trending" ->
             trendingScore(questions[q].views, answerCount(q), hoursSince(q))
      [] OTHER -> questions[q].createdAt

\* the orders ORDER BY key DESC admits: rows with equal keys come in any order
\* (there is no second sort key)
orderBy(ids, sortBy) ==
    {s \in [1..Cardinality(ids) -> ids] :
        /\ \A i, j \in DOMAIN s : i # j => s[i] # s[j]
        /\ \A i, j \in DOMAIN s : i < j => SortKey(s[i], sortBy) >= SortKey(s[j], sortBy)}

\* the handler: req.query passed on to storage.getQuestions (the status filter
\* applies only when the request carries one; limit and offset keep their
\* defaults, 20 rows from the first), res.json
ListQuestionsBegin(p, status, sortBy) ==
    /\ FreeSlot(p)
    /\ \E result \in orderBy(getQuestions([status |-> status, userId |-> ""]), sortBy) :
           last' = [op |-> "getQuestions", kind |-> "OK", sortBy |-> sortBy,
                    body |-> result]
    /\ UNCHANGED <<questions, answers, log, nq, na, pc, loc, viewCalls>>

ListQuestions(p) ==
    \E status \in {"", "approved", "pending"}, sortBy \in SortBys :
        ListQuestionsBegin(p, status, sortBy)

\* The tables the lists are read from: MaxQ questions by the user, approved or
\* pending, with any views and age, and MaxA answers by the supervisor, approved
\* or pending, to any of them.
InitRank ==
    /\ questions \in [QIds -> [createdBy : {"u1"}, status : {"approved", "pending"},
                               views : 0..MaxViews, isFinal : {0},
                               createdAt : CreatedAts]]
    /\ answers \in [AIds -> [questionId : QIds, createdBy : {"s1"},
                             status : {"approved", "pending"}]]
    /\ log = EmptyBag
    /\ nq = MaxQ
    /\ na = MaxA
    /\ pc = [p \in Procs |-> "idle"]
    /\ loc = [p \in Procs |-> NoLoc]
    /\ last = NoResp
    /\ viewCalls = [q \in QIds |-> 0]

NextRank == \E p \in Procs : ListQuestions(p)

SpecRank == InitRank /\ [][NextRank]_vars

\* ---------------------------------------------------------- C27 .. C30
\* the list is the most recent response and was asked for in trending order
\* (the lists are read while the tables stand still)
TrendingListed == last.op = "getQuestions" /\ last.sortBy = "trending"

\* score(q) = (views + 2 * approvedAnswerCount) / (hoursSinceCreated + 1) as the
\* pair of its numerator and its denominator
Engagement(q) ==
    questions[q].views
      + 2 * Cardinality({a \in DOMAIN answers :
                            answers[a].questionId = q /\ answers[a].status = "approved"})

Age(q) == NowHour - questions[q].createdAt

\* score(q1) >= score(q2), the fractions compared exactly
ScoreGeq(q1, q2) == Engagement(q1) * (Age(q2) + 1) >= Engagement(q2) * (Age(q1) + 1)

\* C27: the trending ordering returns only approved questions, whatever status
\* filter the caller passes or leaves out.
C27_TrendingOnlyApproved ==
    TrendingListed => \A i \in DOMAIN last.body : questions[last.body[i]].status = "approved"

\* C28: the trending ordering lists the questions in non-increasing order of
\* score(q) = (views + 2 * approvedAnswerCount) / (hoursSinceCreated + 1), where
\* approvedAnswerCount counts only the approved answers.
C28_TrendingByScore ==
    TrendingListed
    => \A i, j \in DOMAIN last.body : i < j => ScoreGeq(last.body[i], last.body[j])

\* C29: in the trending ordering, questions of equal score are listed by
\* createdAt descending: the newer one first.
C29_TiesNewerFirst ==
    TrendingListed
    => \A i, j \in DOMAIN last.body :
           i < j /\ ScoreGeq(last.body[i], last.body[j])
                 /\ ScoreGeq(last.body[j], last.body[i])
           => questions[last.body[i]].createdAt >= questions[last.body[j]].createdAt

ApprovedAnswers(as, q) ==
    {a \in DOMAIN as : as[a].questionId = q /\ as[a].status = "approved"}

\* C31: the lifecycle: a question submitted by a user is stored pending with 0
\* views; an admin's approval makes it approved; an answer submitted by a
\* supervisor is stored pending and leaves the question's approvedAnswerCount as
\* it was; an admin's approval of an answer makes it approved and from then on
\* it counts; at all times approvedAnswerCount is the number of the question's
\* answers whose status is approved.
C31_Lifecycle ==
    /\ [](\A q \in DOMAIN questions : answerCount(q) = Cardinality(ApprovedAnswers(answers, q)))
    /\ [][/\ \A q \in DOMAIN questions' \ DOMAIN questions :
                 Role(questions'[q].createdBy) = "user"
                 => questions'[q].status = "pending" /\ questions'[q].views = 0
          /\ \A q \in DOMAIN questions :
                 SetQuestionStatusCall("a1", q, "approved")
                 => questions'[q].status = "approved"
          /\ \A a \in DOMAIN answers' \ DOMAIN answers :
                 Role(answers'[a].createdBy) = "supervisor"
                 => /\ answers'[a].status = "pending"
                    /\ \A q \in QIds : answers'[a].questionId = q
                                           => answerCount(q)' = answerCount(q)
          /\ \A a \in DOMAIN answers :
                 SetAnswerStatusCall("a1", a, "approved")
                 => /\ answers'[a].status = "approved"
                    /\ a \in ApprovedAnswers(answers', answers[a].questionId)
                    /\ answerCount(answers[a].questionId)'
                           = answerCount(answers[a].questionId)
                               + (IF answers[a].status = "approved" THEN 0 ELSE 1)]_vars

\* the scenario has run: the user's question is approved and the supervisor's
\* answer to it has just been approved and counts
C31_Witness ==
    /\ last = Resp("setAnswerStatus", "OK")
    /\ \E q \in DOMAIN questions :
           /\ questions[q].createdBy = "u1" /\ questions[q].status = "approved"
           /\ answerCount(q) = 1
           /\ \E a \in DOMAIN answers :
                  /\ answers[a].questionId = q /\ answers[a].createdBy = "s1"
                  /\ answers[a].status = "approved"

\* --------------------------------------- GET /api/questions/:id/answers
\* DatabaseStorage.getAnswersByQuestionId: SELECT ... FROM answers WHERE
\* question_id = id (their order by createdAt is left out)
getAnswersByQuestionId(id) == {a \in DOMAIN answers : answers[a].questionId = id}

\* requireAuth, storage.getAnswersByQuestionId, res.json: every role is served
\* the same rows
ListAnswersBegin(p, actor, id) ==
    /\ FreeSlot(p)
    /\ last' = RespBody("listAnswers", "OK", getAnswersByQuestionId(id))
    /\ UNCHANGED <<questions, answers, log, nq, na, pc, loc, viewCalls>>

ListAnswers(p) == \E actor \in Users, id \in QIds : ListAnswersBegin(p, actor, id)

\* Reading the answers of a question beside the submissions and the
\* moderation of answers, one request at a time.
NextListAnswers ==
    \/ SubmitQuestion(1, {0})
    \/ SubmitAnswer(1)
    \/ SetAnswerStatus(1)
    \/ ListAnswers(1)

SpecListAnswers == Init /\ [][NextListAnswers]_vars

\* ---------------------------------------------------------------- C32
ListAnswersCall(actor, id) == \E p \in Procs : ListAnswersBegin(p, actor, id)

\* C32: listAnswers returns an answer to a caller of role user only if its
\* status is approved: a supervisor's answer is not shown before an admin has
\* approved it.
C32_OnlyApprovedVisible ==
    [][\A actor \in Users, id \in QIds :
          ListAnswersCall(actor, id) /\ Role(actor) = "user"
          => \A a \in last'.body : answers[a].status = "approved"]_vars

\* ---------------------------------------------------------------- C33
\* C33: the throttle applies only to supervisors and only to their own pending
\* questions: a submitQuestion by an admin or a user is never answered
\* ThrottleViolation, however many pending questions of theirs are stored, and a
\* valid submitQuestion by a supervisor without a pending question of their own
\* goes on to create the question, whatever other authors have pending.
C33_ThrottleOnlyOwnSupervisor ==
    [][\A actor \in Users, valid \in BOOLEAN :
          SubmitQuestionCall(actor, valid, 0)
          => /\ Role(actor) # "supervisor" => last'.kind # "ThrottleViolation"
             /\ Role(actor) # "supervisor" /\ valid
                => \E p \in Procs : pc[p] = "idle" /\ pc'[p] = "sq_log"
             /\ Role(actor) = "supervisor" /\ valid /\ Pending(actor) = {}
                => \E p \in Procs : pc[p] = "idle" /\ pc'[p] = "sq_insert"]_vars

\* a user with a pending question has submitted a second one
C33_Witness ==
    /\ {1, 2} \subseteq DOMAIN questions
    /\ \A q \in {1, 2} : questions[q].createdBy = "u1" /\ questions[q].status = "pending"
    /\ last = Resp("submitQuestion", "Created")

\* ---------------------------------------------------------------- C34
\* C34: a setQuestionStatus or setAnswerStatus call that passes the role gate
\* with a valid status but names no stored question or answer is answered
\* NotFound, changes no table and appends no log entry.
C34_AbsentIdNotFound ==
    [][\A actor \in Users, status \in Statuses :
          /\ \A id \in QIds \ DOMAIN questions :
                 SetQuestionStatusCall(actor, id, status)
                   /\ Role(actor) \in {"admin", "supervisor"}
                 => last' = Resp("setQuestionStatus", "NotFound") /\ NothingChanges
          /\ \A id \in AIds \ DOMAIN answers :
                 SetAnswerStatusCall(actor, id, status) /\ Role(actor) = "admin"
                 => last' = Resp("setAnswerStatus", "NotFound") /\ NothingChanges]_vars

\* ---------------------------------------------------------------- C35
\* C35: the notification is sent for a new question if and only if the
\* submitQuestion succeeds and its author is a user, and for a new answer if and
\* only if the submitAnswer succeeds and its author is a supervisor: the mail is
\* sent only once the row and its log entry are stored, the request then ends
\* with Created, a Created request of that role has had its mail sent and one
\* of another role has not, and a rejected request runs no step at all.
C35_NotifiedIffStoredByRole ==
    [][/\ \A p \in Procs :
              /\ (\E delivered \in BOOLEAN : SubmitQuestionMail(p, delivered))
                 => /\ Role(loc[p].actor) = "user"
                    /\ nq \in DOMAIN questions /\ questions[nq].createdBy = loc[p].actor
                    /\ BagIn([userId |-> loc[p].actor, action |-> "Created question"], log)
              /\ (\E delivered \in BOOLEAN : SubmitAnswerMail(p, delivered))
                 => /\ Role(loc[p].actor) = "supervisor"
                    /\ na \in DOMAIN answers /\ answers[na].createdBy = loc[p].actor
                    /\ BagIn([userId |-> loc[p].actor, action |-> "Answered question"], log)
              /\ pc[p] \in {"sq_mailed", "sq_mailfailed"}
                 => last' = Resp("submitQuestion", "Created")
              /\ pc[p] \in {"sa_mailed", "sa_mailfailed"}
                 => last' = Resp("submitAnswer", "Created")
              /\ pc'[p] = "idle" /\ pc[p] # "idle" /\ last' = Resp("submitQuestion", "Created")
                 => (Role(loc[p].actor) = "user" <=> pc[p] \in {"sq_mailed", "sq_mailfailed"})
              /\ pc'[p] = "idle" /\ pc[p] # "idle" /\ last' = Resp("submitAnswer", "Created")
                 => (Role(loc[p].actor) = "supervisor"
                        <=> pc[p] \in {"sa_mailed", "sa_mailfailed"})
       /\ last'.kind \notin {"", "Created"} => pc' = pc]_vars

\* the mail about a user's new question has been delivered; the question and
\* its log entry are stored
C35_Witness ==
    \E p \in Procs :
        /\ pc[p] = "sq_mailed" /\ Role(loc[p].actor) = "user"
        /\ nq \in DOMAIN questions /\ questions[nq].createdBy = loc[p].actor
        /\ BagIn([userId |-> loc[p].actor, action |-> "Created question"], log)

\* ---------------------------------------------------------------- C36
\* C36: a final question always carries its authoritative answer: whenever no
\* request is running, every question with isFinal set has at least one answer
\* whose status is approved.
C36_FinalHasApprovedAnswer ==
    (\A p \in Procs : pc[p] = "idle")
    => \A q \in DOMAIN questions :
           questions[q].isFinal # 0 => ApprovedAnswers(answers, q) # {}

\* ---------------------------------------------------------------- C37
\* C37: a final question accepts no further answers on any path: in no step
\* does the number of answers of a question that is final grow, also not in a
\* repeated direct-answer call by an admin.
C37_FinalAnswersNeverGrow ==
    [][\A q \in DOMAIN questions :
          questions[q].isFinal # 0
          => Cardinality(AnswersOf(answers', q)) <= Cardinality(AnswersOf(answers, q))]_vars

\* ---------------------------------------------------------------- C38
PostAnswerCall(actor, id, valid) == \E p \in Procs : PostAnswerBegin(p, actor, id, valid)

\* C38: answers are created only on approved questions: a submitAnswer or a
\* direct-answer call that passes its checks and goes on to insert an answer
\* names a question whose status is approved at the time of the call.
C38_AnswersOnlyOnApproved ==
    [][\A actor \in Users, id \in QIds, ok \in BOOLEAN :
          (SubmitAnswerCall(actor, id, ok) \/ PostAnswerCall(actor, id, ok)) /\ pc' # pc
          => id \in DOMAIN questions /\ questions[id].status = "approved"]_vars

\* The direct-answer path with any body, beside the questions it answers, one
\* request at a time.
NextPostAnswer == SubmitQuestion(1, {0}) \/ PostAnswerAnyStatus(1)

SpecPostAnswer == Init /\ [][NextPostAnswer]_vars

\* ---------------------------------------------------------------- C39
\* C39: the direct-answer path has an effect only for admins: a call by a
\* supervisor or a user is answered with an error and changes no table and no
\* log; a call by an admin that passes the checks inserts exactly one answer,
\* approved whatever status its body carries, then sets the isFinal of the
\* question it answers and ends with Created.
C39_DirectAnswerOnlyAdmin ==
    [][/\ \A actor \in Users, id \in QIds, valid \in BOOLEAN, bodyStatus \in BodyStatuses :
              (\E p \in Procs : PostAnswerRequest(p, actor, id, valid, bodyStatus))
              => IF Role(actor) # "admin"
                 THEN /\ NothingChanges
                      /\ last'.op = "postAnswer"
                      /\ last'.kind \in {"ValidationError", "NotFound", "Forbidden"}
                 ELSE valid /\ id \in DOMAIN questions
                      => /\ \E p \in Procs : pc[p] = "idle" /\ pc'[p] = "pa_insert"
                         /\ questions' = questions /\ answers' = answers /\ log' = log
       /\ \A p \in Procs :
              /\ pc[p] = "pa_insert"
                 => /\ Role(loc[p].actor) = "admin"
                    /\ DOMAIN answers' = DOMAIN answers \cup {na + 1}
                    /\ na + 1 \notin DOMAIN answers
                    /\ \A a \in DOMAIN answers : answers'[a] = answers[a]
                    /\ answers'[na + 1] = [questionId |-> loc[p].id,
                                           createdBy |-> loc[p].actor,
                                           status |-> "approved"]
                    /\ pc'[p] = "pa_final" /\ loc'[p].id = loc[p].id
              /\ pc[p] = "pa_final"
                 => /\ questions'[loc[p].id].isFinal = 1
                    /\ answers' = answers /\ pc'[p] = "pa_log"
              /\ pc[p] = "pa_log"
                 => /\ last' = Resp("postAnswer", "Created")
                    /\ questions' = questions /\ answers' = answers]_vars

\* the admin's direct answer to the user's question is stored: one answer,
\* approved, and the question is final
C39_Witness ==
    /\ last = Resp("postAnswer", "Created")
    /\ \E q \in DOMAIN questions :
           /\ questions[q].createdBy = "u1" /\ questions[q].isFinal = 1
           /\ \E a \in DOMAIN answers :
                  /\ AnswersOf(answers, q) = {a}
                  /\ answers[a].createdBy = "a1" /\ answers[a].status = "approved"

\* ------------------------------------------------- frames of the updates
NextFrame ==
    \/ SubmitQuestion(1, {0})
    \/ SubmitAnswer(1)
    \/ SetQuestionStatus(1)
    \/ SetAnswerStatus(1)
    \/ ViewQuestion(1)

SpecFrame == Init /\ [][NextFrame]_vars

\* the rows of rs other than id are the same in rs2, and no row is added or removed
OthersUnchanged(rs, rs2, id) ==
    /\ DOMAIN rs2 = DOMAIN rs
    /\ \A r \in DOMAIN rs : r # id => rs2[r] = rs[r]

\* C40: a successful setQuestionStatus changes only the status field of the
\* addressed question (its views, isFinal and author, all answers and every
\* other question stay as they were); a successful viewQuestion changes only
\* the views field of the addressed question; a successful setAnswerStatus
\* changes only the status of the addressed answer
C40_UpdatesKeepFrame ==
    [][
        /\ pc'[1] = "qs_log" /\ pc[1] = "idle"
           => \A actor \in Users, id \in QIds, status \in StatusInputs :
              SetQuestionStatusCall(actor, id, status)
              => /\ OthersUnchanged(questions, questions', id)
                 /\ (id \in DOMAIN questions
                     => questions'[id] = [questions[id] EXCEPT !.status = status])
                 /\ answers' = answers
        /\ (pc[1] = "qs_log" /\ pc'[1] = "idle" /\ last'.kind = "OK")
           => questions' = questions /\ answers' = answers
        /\ (pc[1] = "gv_incr" /\ pc'[1] = "idle" /\ last'.kind = "OK")
           => /\ OthersUnchanged(questions, questions', loc[1].id)
              /\ (loc[1].id \in DOMAIN questions
                  => questions'[loc[1].id]
                         = [questions[loc[1].id] EXCEPT !.views = questions'[loc[1].id].views])
              /\ answers' = answers
        /\ pc'[1] = "as_log" /\ pc[1] = "idle"
           => \A actor \in Users, id \in AIds, status \in StatusInputs :
              SetAnswerStatusCall(actor, id, status)
              => /\ OthersUnchanged(answers, answers', id)
                 /\ (id \in DOMAIN answers
                     => answers'[id] = [answers[id] EXCEPT !.status = status])
                 /\ questions' = questions
        /\ (pc[1] = "as_log" /\ pc'[1] = "idle" /\ last'.kind = "OK")
           => questions' = questions /\ answers' = answers
    ]_vars

\* two answers of one question of which one was approved alone, after the
\* question was viewed once
C40_Witness ==
    /\ pc[1] = "idle"
    /\ last.op = "setAnswerStatus" /\ last.kind = "OK"
    /\ DOMAIN answers = {1, 2}
    /\ answers[1].questionId = answers[2].questionId
    /\ answers[1].status = "approved" /\ answers[2].status = "pending"
    /\ DOMAIN questions = {1}
    /\ questions[1].views = 1

====
